---- MODULE Spec2Model ----
(***************************************************************************)
(* A model of model_train.ipynb: the 3D residual backbone (ResNet with     *)
(* BasicBlock / Bottleneck blocks), the twin encoder ModelComb, the        *)
(* contrastive loss and the training-step cell.                            *)
(*                                                                         *)
(* Tensors are modelled by their shape and by the provenance of their      *)
(* value (input data, weight version, normalisation statistics used,       *)
(* dropout mask drawn): two activations are equal when shape and           *)
(* provenance agree.  The loss functions are modelled on concrete          *)
(* fixed-point data in SpecLoss.                                           *)
(***************************************************************************)
EXTENDS Integers, Sequences, FiniteSets, TLC

VARIABLES
    block,          \* ResNet.__init__ argument: "BasicBlock" or "Bottleneck"
    layers,         \* ResNet.__init__ argument: the four stage depths
    num_classes,    \* ResNet.__init__ argument
    dropout_rate,   \* ResNet.__init__ argument, in percent
    inplanes,       \* self.inplanes, the running input channel count
    children,       \* names of the registered child modules, in order
    stages,         \* layer1..layer4 as built so far: sequences of blocks
    built,          \* __init__ has returned
    training,       \* nn.Module.training
    weights,        \* version of the shared parameter set
    tracked,        \* per normalisation layer: num_batches_tracked
    probed,         \* the model has been called outside the training cell
    out,            \* what the most recent forward call returned or raised
    pc,             \* position in the training-step cell
    data,           \* x1, x2, y1, y2 of the cell
    grads,          \* state of the parameters' .grad
    losses,         \* contr_loss, mse_loss, total_loss of the cell
    events,         \* the cell's events, in order
    steps,          \* optimizer steps taken so far
    lossIn,         \* arguments of a contrastive_loss call
    lossOut         \* its distances and result

netVars  == <<block, layers, num_classes, dropout_rate, inplanes, children, stages, built>>
modVars  == <<training, weights, tracked, probed, out>>
cellVars == <<pc, data, grads, losses, events, steps>>
lossVars == <<lossIn, lossOut>>
vars     == <<netVars, modVars, cellVars, lossVars>>

(***************************************************************************)
(* Bounds of the model                                                     *)
(***************************************************************************)
MaxDepth == 2
MaxBatch == 2
MaxSteps == 2
MaxMask  == 2

Blocks         == {"BasicBlock", "Bottleneck"}
NumClassesSet  == {1, 1000}
DropoutRates   == {0, 50}
DataIds        == {1, 2}

None == <<>>

(***************************************************************************)
(* Shapes and the primitive layers                                         *)
(***************************************************************************)
RECURSIVE Prod(_)
Prod(s) == IF s = <<>> THEN 1 ELSE Head(s) * Prod(Tail(s))

Spatial(shape) == SubSeq(shape, 3, Len(shape))

Fail(r, where) == [r EXCEPT !.ok = FALSE, !.at = where]

\* Variant: the padding is left out of the output size.
ConvOutNoPad(n, k, s, p) == ((n - k) \div s) + 1

ConvOut(n, k, s, p) == ((n + 2 * p - k) \div s) + 1

Conv3d(r, in_planes, out_planes, k, s, p, name) ==
    IF ~r.ok THEN r
    ELSE IF r.shape[2] # in_planes THEN Fail(r, name)
    ELSE IF \E i \in 3..5 : r.shape[i] + 2 * p < k THEN Fail(r, name)
    ELSE [r EXCEPT !.shape = <<r.shape[1], out_planes,
                               ConvOut(r.shape[3], k, s, p),
                               ConvOut(r.shape[4], k, s, p),
                               ConvOut(r.shape[5], k, s, p)>>]

conv3x3x3(r, in_planes, out_planes, stride, name) ==
    Conv3d(r, in_planes, out_planes, 3, stride, 1, name)

\* Variant: the stride is not passed on to the convolution.
conv1x1x1_unit(r, in_planes, out_planes, stride, name) ==
    Conv3d(r, in_planes, out_planes, 1, 1, 0, name)

conv1x1x1(r, in_planes, out_planes, stride, name) ==
    Conv3d(r, in_planes, out_planes, 1, stride, 0, name)

\* In training mode the layer refuses an input with a single value per
\* channel, and otherwise updates its running statistics; r.bn counts the
\* normalisation layers passed.
BatchNorm3d(r, num_features, name) ==
    IF ~r.ok THEN r
    ELSE IF r.shape[2] # num_features THEN Fail(r, name)
    ELSE IF r.train /\ r.shape[1] * Prod(Spatial(r.shape)) = 1 THEN Fail(r, name)
    ELSE [r EXCEPT !.bn = @ + 1]

MaxPool3d(r, k, s, p, name) ==
    IF ~r.ok THEN r
    ELSE IF \E i \in 3..5 : ConvOut(r.shape[i], k, s, p) < 1 THEN Fail(r, name)
    ELSE [r EXCEPT !.shape = <<r.shape[1], r.shape[2],
                               ConvOut(r.shape[3], k, s, p),
                               ConvOut(r.shape[4], k, s, p),
                               ConvOut(r.shape[5], k, s, p)>>]

AdaptiveAvgPool3d(r, name) ==
    IF ~r.ok THEN r
    ELSE IF \E i \in 3..5 : r.shape[i] < 1 THEN Fail(r, name)
    ELSE [r EXCEPT !.shape = <<r.shape[1], r.shape[2], 1, 1, 1>>]

Flatten(r) ==
    IF ~r.ok THEN r
    ELSE [r EXCEPT !.shape = <<r.shape[1], Prod(Tail(r.shape))>>]

Linear(r, in_features, out_features, name) ==
    IF ~r.ok THEN r
    ELSE IF r.shape[Len(r.shape)] # in_features THEN Fail(r, name)
    ELSE [r EXCEPT !.shape = [r.shape EXCEPT ![Len(r.shape)] = out_features]]

\* out += residual: in place, so residual must broadcast to out's shape.
Add(o, residual, name) ==
    IF ~o.ok THEN o
    ELSE IF ~residual.ok THEN residual
    ELSE IF \A i \in 1..5 : residual.shape[i] = o.shape[i] \/ residual.shape[i] = 1
         THEN [o EXCEPT !.bn = residual.bn]
    ELSE Fail([o EXCEPT !.bn = residual.bn], name)

(***************************************************************************)
(* Residual blocks                                                         *)
(***************************************************************************)
Expansion(b) == IF b = "BasicBlock" THEN 1 ELSE 4

Downsample(r, ds) ==
    BatchNorm3d(conv1x1x1(r, ds.in_planes, ds.out_planes, ds.stride, "downsample"),
                ds.out_planes, "downsample.bn")

\* residual = x, or downsample(x) when the block has a projection; it is
\* computed after the main path.
Residual(x, main, b) ==
    IF ~main.ok THEN main
    ELSE IF b.downsample # None
         THEN Downsample([x EXCEPT !.bn = main.bn], b.downsample[1])
         ELSE [x EXCEPT !.bn = main.bn]

\* out += residual; out = relu(out)
Shortcut(x, main, b) == Add(main, Residual(x, main, b), "add")

\* conv1, bn1, relu, dropout, conv2, bn2
BasicBlockMain(x, b) ==
    BatchNorm3d(
      conv3x3x3(
        BatchNorm3d(conv3x3x3(x, b.in_planes, b.planes, b.stride, "conv1"),
                    b.planes, "bn1"),
        b.planes, b.planes, 1, "conv2"),
      b.planes, "bn2")

BasicBlockForward(x, b) == Shortcut(x, BasicBlockMain(x, b), b)

\* conv1, bn1, relu, dropout, conv2, bn2, relu, dropout, conv3, bn3
BottleneckMain(x, b) ==
    BatchNorm3d(
      conv1x1x1(
        BatchNorm3d(
          conv3x3x3(
            BatchNorm3d(conv1x1x1(x, b.in_planes, b.planes, 1, "conv1"),
                        b.planes, "bn1"),
            b.planes, b.planes, b.stride, "conv2"),
          b.planes, "bn2"),
        b.planes, b.planes * 4, 1, "conv3"),
      b.planes * 4, "bn3")

BottleneckForward(x, b) == Shortcut(x, BottleneckMain(x, b), b)

BlockForward(x, b) ==
    IF ~x.ok THEN x
    ELSE IF b.kind = "BasicBlock" THEN BasicBlockForward(x, b)
    ELSE BottleneckForward(x, b)

RECURSIVE Sequential(_, _)
Sequential(r, bs) ==
    IF bs = <<>> THEN r ELSE Sequential(BlockForward(r, Head(bs)), Tail(bs))

\* What a block declares: the channels its main path and its shortcut produce.
MainOut(b)     == b.planes * Expansion(b.kind)
ShortcutOut(b) == IF b.downsample # None THEN b.downsample[1].out_planes ELSE b.in_planes
NumBN(b)       == (IF b.kind = "BasicBlock" THEN 2 ELSE 3)
                  + (IF b.downsample # None THEN 1 ELSE 0)

(***************************************************************************)
(* ResNet.__init__ and _make_layer                                         *)
(***************************************************************************)
StagePlanes  == <<64, 128, 256, 512>>
\* Variant: stage 1 halves the resolution as well.
StageStridesAllTwo == <<2, 2, 2, 2>>
StageStrides == <<1, 2, 2, 2>>
LayerNames   == <<"layer1", "layer2", "layer3", "layer4">>

NewBlock(kind, in_planes, planes, stride, downsample) ==
    [kind |-> kind, in_planes |-> in_planes, planes |-> planes,
     stride |-> stride, downsample |-> downsample]

\* Variant: the projection needs both conditions.
make_layer_both(inpl, blk, planes, blocks, stride) ==
    LET downsample ==
            IF stride # 1 /\ inpl # planes * Expansion(blk)
            THEN <<[in_planes |-> inpl, out_planes |-> planes * Expansion(blk),
                    stride |-> stride]>>
            ELSE None
        first == NewBlock(blk, inpl, planes, stride, downsample)
        newin == planes * Expansion(blk)
        rest  == [i \in 1..(blocks - 1) |-> NewBlock(blk, newin, planes, 1, None)]
    IN  [layer |-> <<first>> \o rest, inplanes |-> newin]

\* Returns the stage and the updated self.inplanes.
make_layer(inpl, blk, planes, blocks, stride) ==
    LET downsample ==
            IF stride # 1 \/ inpl # planes * Expansion(blk)
            THEN <<[in_planes |-> inpl, out_planes |-> planes * Expansion(blk),
                    stride |-> stride]>>
            ELSE None
        first == NewBlock(blk, inpl, planes, stride, downsample)
        newin == planes * Expansion(blk)
        rest  == [i \in 1..(blocks - 1) |-> NewBlock(blk, newin, planes, 1, None)]
    IN  [layer |-> <<first>> \o rest, inplanes |-> newin]

RECURSIVE CountBN(_)
CountBN(bs) == IF bs = <<>> THEN 0 ELSE NumBN(Head(bs)) + CountBN(Tail(bs))

NoOut == [kind |-> "none", ok |-> FALSE, x |-> <<>>, runs |-> <<>>,
          mode |-> FALSE, before |-> <<>>, after |-> <<>>]
NoLoss == [contr |-> None, mse |-> None, total |-> None]
NoLossCall == [pc |-> "none"]

\* resnet101(num_classes=1, in_channels=1), the network the notebook builds
ResNet101 == [block |-> "Bottleneck", layers |-> <<3, 4, 23, 3>>,
              num_classes |-> 1, dropout_rate |-> 0]

\* The constructor calls of the model: the notebook's, and both block
\* variants with every stage of the same depth.
Configs ==
    {ResNet101} \cup
    {[block |-> b, layers |-> <<d, d, d, d>>, num_classes |-> c, dropout_rate |-> p] :
        b \in Blocks, d \in 1..MaxDepth, c \in NumClassesSet, p \in DropoutRates}

\* Every list of stage depths up to MaxDepth, for the construction alone.
AllDepths ==
    {[block |-> b, layers |-> l, num_classes |-> 1, dropout_rate |-> 0] :
        b \in Blocks, l \in [1..4 -> 1..MaxDepth]}

\* The state at the first statement of ResNet.__init__ called with cfg.
InitWith(cfg) ==
    /\ block = cfg.block
    /\ layers = cfg.layers
    /\ num_classes = cfg.num_classes
    /\ dropout_rate = cfg.dropout_rate
    /\ inplanes = 64
    /\ children = <<>>
    /\ stages = <<>>
    /\ built = FALSE
    /\ training = TRUE
    /\ weights = 0
    /\ tracked = <<>>
    /\ probed = FALSE
    /\ out = NoOut
    /\ pc = "idle"
    /\ data = None
    /\ grads = "none"
    /\ losses = NoLoss
    /\ events = <<>>
    /\ steps = 0

NoCall == lossIn = NoLossCall /\ lossOut = NoLossCall

Init == NoCall /\ \E cfg \in Configs : InitWith(cfg)

InitConstruction == NoCall /\ \E cfg \in AllDepths : InitWith(cfg)

InChannels == 1

Stem ==
    /\ ~built /\ children = <<>>
    /\ children' = <<"conv1", "bn1", "relu", "maxpool">>
    /\ UNCHANGED <<block, layers, num_classes, dropout_rate, inplanes, stages, built>>
    /\ UNCHANGED <<modVars, cellVars, lossVars>>

MakeLayer ==
    /\ ~built /\ children # <<>> /\ Len(stages) < 4
    /\ LET i == Len(stages) + 1
           made == make_layer(inplanes, block, StagePlanes[i], layers[i], StageStrides[i])
       IN  /\ stages' = Append(stages, made.layer)
           /\ inplanes' = made.inplanes
           /\ children' = Append(children, LayerNames[i])
    /\ UNCHANGED <<block, layers, num_classes, dropout_rate, built>>
    /\ UNCHANGED <<modVars, cellVars, lossVars>>

HeadAndInit ==
    /\ ~built /\ Len(stages) = 4
    /\ children' = children \o <<"avgpool", "fc">>
    /\ built' = TRUE
    /\ tracked' = [i \in 1..(1 + CountBN(stages[1]) + CountBN(stages[2])
                               + CountBN(stages[3]) + CountBN(stages[4])) |-> 0]
    /\ UNCHANGED <<block, layers, num_classes, dropout_rate, inplanes, stages>>
    /\ UNCHANGED <<training, weights, probed, out>>
    /\ UNCHANGED <<cellVars, lossVars>>

(***************************************************************************)
(* ResNet.forward and the feature extractor of ModelComb.forward           *)
(***************************************************************************)
ForwardSteps == <<"conv1", "bn1", "relu", "maxpool",
                  "layer1", "layer2", "layer3", "layer4",
                  "avgpool", "flatten", "fc">>

IsLayer(name) == \E i \in 1..4 : LayerNames[i] = name
LayerIndex(name) == CHOOSE i \in 1..4 : LayerNames[i] = name

Within(name, q) == IF q.ok THEN q ELSE Fail(q, name \o "." \o q.at)

ChildForward(name, r) ==
    CASE name = "conv1"   -> Conv3d(r, InChannels, 64, 7, 2, 3, name)
      [] name = "bn1"     -> BatchNorm3d(r, 64, name)
      [] name = "relu"    -> r
      [] name = "maxpool" -> MaxPool3d(r, 3, 2, 1, name)
      [] IsLayer(name)    -> Within(name, Sequential(r, stages[LayerIndex(name)]))
      [] name = "avgpool" -> AdaptiveAvgPool3d(r, name)
      [] name = "flatten" -> Flatten(r)
      [] name = "fc"      -> Linear(r, 512 * Expansion(block), num_classes, name)

\* One top-level step: the activation it produces is recorded with what its
\* value depends on besides input, weights and statistics (the dropout mask,
\* once a stage has been passed).
Activation(name, q, d) ==
    IF ~q.ok THEN q
    ELSE [q EXCEPT !.dirty = d,
                   !.acts = Append(@, [layer |-> name, shape |-> q.shape,
                                       mask |-> IF d THEN q.mask ELSE 0])]

ApplyStep(r, name) ==
    IF ~r.ok THEN r
    ELSE Activation(name, ChildForward(name, r), r.dirty \/ IsLayer(name))

RECURSIVE RunSteps(_, _)
RunSteps(r, names) ==
    IF names = <<>> THEN r ELSE RunSteps(ApplyStep(r, Head(names)), Tail(names))

DropoutActive(train) == train /\ dropout_rate > 0

NormStats(train, trk) ==
    IF train THEN [running |-> FALSE, stats |-> <<>>]
    ELSE [running |-> TRUE, stats |-> trk]

Start(x, train, trk, m) ==
    [ok |-> TRUE, at |-> "", shape |-> x.shape, bn |-> 0, train |-> train,
     acts |-> <<>>, dirty |-> FALSE,
     mask |-> IF DropoutActive(train) THEN m ELSE 0,
     src |-> x.data, w |-> weights, norm |-> NormStats(train, trk)]

ResNetForward(x, train, trk, m) == RunSteps(Start(x, train, trk, m), ForwardSteps)

\* Variant: the slice [:-1], which keeps the pooling layer.
FeatureExtractorLayersWithPool == SubSeq(children, 1, Len(children) - 1)

\* feature_extractor = nn.Sequential(*list(self.resnet.children())[:-2])
FeatureExtractorLayers == SubSeq(children, 1, Len(children) - 2)

FeatureExtractor(x, train, trk, m) ==
    RunSteps(Start(x, train, trk, m), FeatureExtractorLayers)

\* Variant: the statistics are updated whatever the mode.
UpdateTrackedAnyMode(trk, r) ==
    [i \in 1..Len(trk) |-> IF i <= r.bn THEN trk[i] + 1 ELSE trk[i]]

\* The running statistics after a traversal: in training mode every
\* normalisation layer the traversal passed has tracked one more batch.
UpdateTracked(trk, r) ==
    [i \in 1..Len(trk) |-> IF r.train /\ i <= r.bn THEN trk[i] + 1 ELSE trk[i]]

\* Variant: a traversal leaves the statistics alone.
ExtendFrozen(acc, r) ==
    [runs |-> Append(acc.runs, r), tracked |-> acc.tracked, ok |-> r.ok]

Extend(acc, r) ==
    [runs |-> Append(acc.runs, r), tracked |-> UpdateTracked(acc.tracked, r),
     ok |-> r.ok]

Traverse(t, train, trk, m) ==
    RunSteps(Start(t.x, train, trk, m),
             IF t.full THEN ForwardSteps ELSE FeatureExtractorLayers)

\* The traversals of one call, in sequence; the first that raises ends it.
RECURSIVE Traversals(_, _, _, _)
Traversals(todo, train, ms, acc) ==
    IF todo = <<>> \/ ~acc.ok THEN acc
    ELSE Traversals(Tail(todo), train, Tail(ms),
                    Extend(acc, Traverse(Head(todo), train, acc.tracked, Head(ms))))

\* reg0 = resnet(x1); reg1 = resnet(x2);
\* features_x1 = feature_extractor(x1); features_x2 = feature_extractor(x2)
ModelCombForward(x1, x2, train, trk, ms) ==
    Traversals(<<[x |-> x1, full |-> TRUE], [x |-> x2, full |-> TRUE],
                 [x |-> x1, full |-> FALSE], [x |-> x2, full |-> FALSE]>>,
               train, ms, [runs |-> <<>>, tracked |-> trk, ok |-> TRUE])

Returned(kind, xs, res, train, trk) ==
    [kind |-> kind, ok |-> res.ok,
     x |-> xs, runs |-> res.runs, mode |-> train,
     before |-> trk, after |-> res.tracked]

\* Input volumes (D, H, W): multiples of 32, and volumes with one, two or
\* three dimensions below 32.
Volumes == {<<32, 32, 32>>, <<32, 32, 64>>, <<32, 64, 96>>, <<64, 64, 64>>,
            <<1, 1, 1>>, <<16, 16, 16>>, <<1, 16, 31>>, <<16, 32, 64>>, <<31, 31, 64>>}

Tensor(n, v, d) == [shape |-> <<n, InChannels, v[1], v[2], v[3]>>, data |-> d]

(***************************************************************************)
(* Calls on the constructed model                                          *)
(***************************************************************************)
\* The dropout masks the traversals of one call draw.  Only which draws
\* coincide matters, so the masks are numbered in order of first appearance.
MaskChoices(train, k) ==
    IF DropoutActive(train)
    THEN {ms \in [1..k -> 1..MaxMask] :
             \A i \in 1..k : \A m \in 1..(ms[i] - 1) : \E j \in 1..(i - 1) : ms[j] = m}
    ELSE {[i \in 1..k |-> 1]}

\* nn.Module.train(mode); eval() is train(False).
Train(mode) ==
    /\ built /\ pc = "idle" /\ training # mode
    /\ training' = mode
    /\ UNCHANGED <<weights, tracked, probed, out>>
    /\ UNCHANGED <<netVars, cellVars, lossVars>>

SetTrain == \E mode \in BOOLEAN : Train(mode)

CallModelComb ==
    /\ built /\ pc = "idle" /\ ~probed
    /\ \E n \in 1..MaxBatch, v \in Volumes, d2 \in DataIds,
          ms \in MaskChoices(training, 4) :
       \E res \in {ModelCombForward(Tensor(n, v, 1), Tensor(n, v, d2),
                                     training, tracked, ms)} :
          /\ out' = Returned("ModelComb", <<Tensor(n, v, 1), Tensor(n, v, d2)>>,
                             res, training, tracked)
          /\ tracked' = res.tracked
    /\ probed' = TRUE
    /\ UNCHANGED <<training, weights>>
    /\ UNCHANGED <<netVars, cellVars, lossVars>>

(***************************************************************************)
(* contrastive_loss and MSELoss on shapes, and the training-step cell      *)
(***************************************************************************)
\* F.pairwise_distance reduces the innermost dimension only.
PairwiseDistanceShape(shape) == SubSeq(shape, 1, Len(shape) - 1)

Margin == 2000000       \* margin=1.0 in units of 5e-7

ContrastiveLossShape(f1, f2, margin) ==
    [deps |-> {f1.name, f2.name},
     f1 |-> f1, f2 |-> f2, margin |-> margin,
     distances |-> PairwiseDistanceShape(f1.shape),
     over |-> f1.shape[Len(f1.shape)],
     n |-> Prod(PairwiseDistanceShape(f1.shape))]

mse_loss_fn(input, target) ==
    [deps |-> {input.name, target.name}, input |-> input, target |-> target]

\* Variant: the regression term is dropped from the sum.
TotalLossContrastiveOnly(c, m) == [deps |-> c.deps, terms |-> <<c>>]

TotalLoss(c, m) == [deps |-> c.deps \cup m.deps, terms |-> <<c, m>>]

CellBatchSize == 8
CellImageSize == 64

generate_synthetic_mri_data(batch_size, d1, d2) ==
    [x1 |-> Tensor(batch_size, <<CellImageSize, CellImageSize, CellImageSize>>, d1),
     x2 |-> Tensor(batch_size, <<CellImageSize, CellImageSize, CellImageSize>>, d2),
     y1 |-> [name |-> "y1", shape |-> <<batch_size, 1>>],
     y2 |-> [name |-> "y2", shape |-> <<batch_size, 1>>]]

\* optimizer = Adam(...); data; model.train()
CellSetup ==
    /\ built /\ pc \in {"idle", "done"} /\ ~probed /\ steps < MaxSteps
    /\ \E d2 \in DataIds :
          data' = generate_synthetic_mri_data(CellBatchSize, 1, d2)
    /\ training' = TRUE
    /\ out' = NoOut
    /\ losses' = NoLoss
    /\ events' = <<>>
    /\ pc' = "zero_grad"
    /\ UNCHANGED <<weights, tracked, probed, grads, steps>>
    /\ UNCHANGED <<netVars, lossVars>>

ZeroGrad ==
    /\ pc = "zero_grad"
    /\ grads' = IF grads = "none" THEN "none" ELSE "zero"
    /\ events' = Append(events, "zero_grad")
    /\ pc' = "forward"
    /\ UNCHANGED <<data, losses, steps>>
    /\ UNCHANGED <<netVars, modVars, lossVars>>

CellForward ==
    /\ pc = "forward"
    /\ \E ms \in MaskChoices(training, 4) :
       \E res \in {ModelCombForward(data.x1, data.x2, training, tracked, ms)} :
          /\ out' = Returned("ModelComb", <<data.x1, data.x2>>, res, training, tracked)
          /\ tracked' = res.tracked
          /\ pc' = IF res.ok THEN "loss" ELSE "raised"
    /\ events' = Append(events, "forward")
    /\ UNCHANGED <<training, weights, probed>>
    /\ UNCHANGED <<data, grads, losses, steps>>
    /\ UNCHANGED <<netVars, lossVars>>

Named(name, r) == [name |-> name, shape |-> r.shape, act |-> r.acts[Len(r.acts)],
                   src |-> r.src, w |-> r.w, norm |-> r.norm]

CellLoss ==
    /\ pc = "loss"
    /\ LET features_x1 == Named("features_x1", out.runs[3])
           features_x2 == Named("features_x2", out.runs[4])
           reg0 == Named("reg0", out.runs[1])
           contr_loss == ContrastiveLossShape(features_x1, features_x2, Margin)
           mse_loss == mse_loss_fn(reg0, data.y1)
       IN  losses' = [contr |-> contr_loss, mse |-> mse_loss,
                      total |-> TotalLoss(contr_loss, mse_loss)]
    /\ events' = Append(events, "loss")
    /\ pc' = "backward"
    /\ UNCHANGED <<data, grads, steps>>
    /\ UNCHANGED <<netVars, modVars, lossVars>>

Backward ==
    /\ pc = "backward"
    /\ grads' = "set"
    /\ events' = Append(events, "backward")
    /\ pc' = "step"
    /\ UNCHANGED <<data, losses, steps>>
    /\ UNCHANGED <<netVars, modVars, lossVars>>

OptimizerStep ==
    /\ pc = "step"
    /\ weights' = IF grads = "none" THEN weights ELSE weights + 1
    /\ steps' = steps + 1
    /\ events' = Append(events, "step")
    /\ pc' = "done"
    /\ UNCHANGED <<training, tracked, probed, out>>
    /\ UNCHANGED <<data, grads, losses>>
    /\ UNCHANGED <<netVars, lossVars>>

Next ==
    \/ Stem
    \/ MakeLayer
    \/ HeadAndInit
    \/ SetTrain
    \/ CallModelComb
    \/ CellSetup
    \/ ZeroGrad
    \/ CellForward
    \/ CellLoss
    \/ Backward
    \/ OptimizerStep

Spec == Init /\ [][Next]_vars

\* ResNet.__init__ alone, for every list of stage depths.
NextConstruction ==
    \/ Stem
    \/ MakeLayer
    \/ HeadAndInit

SpecConstruction == InitConstruction /\ [][NextConstruction]_vars

(***************************************************************************)
(* contrastive_loss on data.  Numbers are fixed-point, in units of 5e-7;   *)
(* the mean is kept as the fraction num / den.                             *)
(***************************************************************************)
MaxDim   == 2
MaxElems == 4
Eps      == 2           \* eps=1e-06, the default of F.pairwise_distance

LossValues  == {0, 4}
LossMargins == {1, 5, Margin}
LossShapes  == {sh \in [1..5 -> 1..MaxDim] : Prod(sh) <= MaxElems}

ISqrt(n) == CHOOSE r \in 0..n : r * r <= n /\ (r + 1) * (r + 1) > n

RECURSIVE SumSeq(_)
SumSeq(q) == IF q = <<>> THEN 0 ELSE Head(q) + SumSeq(Tail(q))

Square(v) == v * v

\* The L2 norm of x1 - x2 + eps over row k of the innermost dimension.
RowNorm(d1, d2, k, w) ==
    ISqrt(SumSeq([j \in 1..w |-> Square(d1[(k - 1) * w + j] - d2[(k - 1) * w + j] + Eps)]))

pairwise_distance(x1, x2) ==
    [shape |-> PairwiseDistanceShape(x1.shape),
     data  |-> [k \in 1..Prod(PairwiseDistanceShape(x1.shape)) |->
                   RowNorm(x1.data, x2.data, k, x1.shape[Len(x1.shape)])]]

\* Variant: no clamping.
ClampNone(v, min) == v

Clamp(v, min) == IF v < min THEN min ELSE v

Hinge(margin, distances) ==
    [k \in 1..Len(distances.data) |-> Clamp(margin - distances.data[k], 0)]

Mean(q) == [num |-> SumSeq(q), den |-> Len(q)]

LossResult(distances, margin) ==
    [distances |-> distances, loss |-> Mean(Hinge(margin, distances))]

contrastive_loss(features_x1, features_x2, margin) ==
    LossResult(pairwise_distance(features_x1, features_x2), margin)

LossArgs ==
    {[pc |-> "args", f1 |-> [shape |-> sh, data |-> d1],
      f2 |-> [shape |-> sh, data |-> d2], margin |-> m] :
        sh \in LossShapes, d1 \in UNION {[1..n -> LossValues] : n \in 1..MaxElems},
        d2 \in UNION {[1..n -> LossValues] : n \in 1..MaxElems}, m \in LossMargins}

InitLoss ==
    /\ InitWith(ResNet101)
    /\ lossIn \in {a \in LossArgs : Len(a.f1.data) = Prod(a.f1.shape)
                                    /\ Len(a.f2.data) = Prod(a.f2.shape)}
    /\ lossOut = NoLossCall

LossCall ==
    /\ lossIn.pc = "args" /\ lossOut.pc = "none"
    /\ lossOut' = [pc |-> "returned", prev |-> <<>>,
                   ret |-> contrastive_loss(lossIn.f1, lossIn.f2, lossIn.margin)]
    /\ UNCHANGED <<lossIn, netVars, modVars, cellVars>>

\* A further call, on features that differ from the last ones in one element.
LossRecall ==
    /\ lossOut.pc = "returned"
    /\ \E i \in 1..Len(lossIn.f2.data), v \in LossValues :
          /\ v # lossIn.f2.data[i]
          /\ \E a \in {[lossIn EXCEPT !.f2.data[i] = v]} :
                /\ lossIn' = a
                /\ lossOut' = [pc |-> "returned", prev |-> <<lossOut.ret>>,
                               ret |-> contrastive_loss(a.f1, a.f2, a.margin)]
    /\ UNCHANGED <<netVars, modVars, cellVars>>

NextLoss ==
    \/ LossCall
    \/ LossRecall

SpecLoss == InitLoss /\ [][NextLoss]_vars

(***************************************************************************)
(* Properties                                                              *)
(***************************************************************************)
Called == out.kind = "ModelComb"

Batch   == out.x[1].shape[1]
Dims    == Spatial(out.x[1].shape)
Reg0    == out.runs[1]

Div32       == \A i \in 1..3 : Dims[i] >= 32 /\ Dims[i] % 32 = 0
BelowThirtyTwo == \E i \in 1..3 : Dims[i] < 32
CeilDiv(n, d) == (n + d - 1) \div d
Reduced     == [i \in 1..3 |-> CeilDiv(Dims[i], 32)]

\* A normalisation layer in training mode is given one value per channel.
SingleValue == out.mode /\ Batch * Prod(Reduced) = 1

PreHead(r) == r.acts[8]

\* C1 as stated: for every input (batch, 1, D, H, W) with D, H, W >= 32 and
\* divisible by 32, the backbone forward completes and returns a tensor of
\* shape (batch, num_classes).
C1_Original ==
    (Called /\ Div32) => (Reg0.ok /\ Reg0.shape = <<Batch, num_classes>>)

\* C1 as amended: for such inputs the backbone forward completes with shape
\* (batch, num_classes) in inference mode, and in training mode whenever
\* batch * (D/32) * (H/32) * (W/32) > 1; in training mode with batch = 1 and
\* D = H = W = 32 a normalisation layer of stage 4 raises instead.
C1_ForwardShape ==
    (Called /\ Div32) =>
        /\ ~SingleValue => (Reg0.ok /\ Reg0.shape = <<Batch, num_classes>>)
        /\ SingleValue => (~Reg0.ok /\ Reg0.at \in {"layer4.bn1", "layer4.bn2"})

C1_Witness ==
    Called /\ Div32 /\ out.mode /\ Batch = 1 /\ Reg0.ok
           /\ Reg0.shape = <<1, num_classes>>

\* C2: every feature map the twin encoder returns for inputs with D, H, W
\* divisible by 32 has shape (batch, 512*expansion, D/32, H/32, W/32); the
\* stem reduces each spatial dimension by 4, stage 1 by 1, stages 2-4 by 2.
C2_FeatureShape ==
    (Called /\ out.ok /\ Div32) =>
        \A k \in {3, 4} :
            /\ out.runs[k].shape = <<Batch, 512 * Expansion(block),
                                      Dims[1] \div 32, Dims[2] \div 32, Dims[3] \div 32>>
            /\ \A i \in 1..3 :
                  /\ out.runs[k].acts[4].shape[i + 2] * 4 = Dims[i]
                  /\ out.runs[k].acts[5].shape[i + 2] = out.runs[k].acts[4].shape[i + 2]
                  /\ \A st \in 6..8 :
                        out.runs[k].acts[st].shape[i + 2] * 2
                            = out.runs[k].acts[st - 1].shape[i + 2]

C2_Witness ==
    Called /\ out.ok /\ Div32 /\ Dims = <<32, 64, 96>>
           /\ out.runs[3].shape = <<Batch, 512 * Expansion(block), 1, 2, 3>>

\* C9 as stated: an input with a spatial dimension below 32 never yields a
\* prediction; the forward fails at the pooling/flatten boundary.
C9_Original ==
    (Called /\ BelowThirtyTwo) => (~Reg0.ok /\ Reg0.at \in {"avgpool", "flatten"})

\* C9 as amended: for an input with a spatial dimension below 32 (down to 1)
\* no spatial dimension becomes zero or negative: dimension n is reduced to
\* ceil(n/32) >= 1 before pooling, nothing fails at the pooling/flatten
\* boundary and the forward returns a prediction of shape (batch,
\* num_classes) -- except in training mode when batch = 1 and every
\* dimension is at most 32, where a normalisation layer raises.
C9_SmallInput ==
    (Called /\ BelowThirtyTwo) =>
        /\ ~SingleValue =>
              /\ Reg0.ok /\ Reg0.shape = <<Batch, num_classes>>
              /\ \A i \in 1..3 : PreHead(Reg0).shape[i + 2] = Reduced[i]
              /\ \A a \in 1..Len(Reg0.acts) : \A i \in 1..Len(Reg0.acts[a].shape) :
                    Reg0.acts[a].shape[i] >= 1
        /\ SingleValue =>
              /\ ~Reg0.ok
              /\ Reg0.at \in {"bn1", "layer1.bn1", "layer2.bn1", "layer2.bn2",
                              "layer3.bn1", "layer3.bn2", "layer4.bn1", "layer4.bn2"}

C9_Witness ==
    Called /\ Dims = <<1, 16, 31>> /\ Reg0.ok /\ Reg0.shape = <<Batch, num_classes>>

(* What a traversal returned, with everything its value depends on. *)
Value(r) == [shape |-> r.shape, acts |-> r.acts, src |-> r.src, w |-> r.w,
             norm |-> r.norm]

\* The layers the feature extractor holds are those the backbone forward
\* applies before pooling, and the children it leaves out are the last two.
SameLayers ==
    /\ FeatureExtractorLayers = SubSeq(ForwardSteps, 1, 8)
    /\ children = FeatureExtractorLayers \o <<"avgpool", "fc">>

\* The feature map of input k equals the tensor the full traversal of the
\* same input holds just before pooling.
EqualsPreHead(k) ==
    /\ out.runs[k + 2].acts = SubSeq(out.runs[k].acts, 1, 8)
    /\ out.runs[k + 2].shape = PreHead(out.runs[k]).shape
    /\ out.runs[k + 2].src = out.runs[k].src
    /\ out.runs[k + 2].w = out.runs[k].w
    /\ out.runs[k + 2].norm = out.runs[k].norm

\* C3 as stated: the feature extractor applies the same layers in the same
\* order as the backbone forward before pooling, omits exactly the pooling
\* and the linear head, and for identical weights and input its output
\* equals the backbone's pre-head tensor.
C3_Original ==
    (Called /\ out.ok) => (SameLayers /\ \A k \in {1, 2} : EqualsPreHead(k))

\* C3 as amended: the layers and their order are the same and exactly the
\* pooling and the linear head are omitted; the output equals the backbone's
\* pre-head tensor whenever dropout is inactive (dropout_rate = 0 or
\* inference mode).  With dropout active the two traversals draw their own
\* masks and only the stem activations are guaranteed equal.
C3_FeatureExtractor ==
    (Called /\ out.ok) =>
        /\ SameLayers
        /\ ~DropoutActive(out.mode) => \A k \in {1, 2} : EqualsPreHead(k)
        /\ \A k \in {1, 2} :
              SubSeq(out.runs[k + 2].acts, 1, 4) = SubSeq(out.runs[k].acts, 1, 4)

C3_Witness ==
    /\ Called /\ out.ok /\ out.mode /\ ~DropoutActive(out.mode)
    /\ Len(out.runs[3].acts) = 8 /\ Len(out.runs[1].acts) = 11
    /\ EqualsPreHead(1)

\* C4: in inference mode, when x1 and x2 are the same tensor, the two
\* feature maps are equal and the two predictions are equal.
C4_EqualInputs ==
    (Called /\ out.ok /\ ~out.mode /\ out.x[1] = out.x[2]) =>
        /\ Value(out.runs[3]) = Value(out.runs[4])
        /\ Value(out.runs[1]) = Value(out.runs[2])

C4_Witness ==
    /\ Called /\ out.ok /\ ~out.mode /\ out.x[1] = out.x[2]
    /\ dropout_rate > 0
    /\ Value(out.runs[3]) = Value(out.runs[4])

\* C8 as stated: a twin forward call leaves every piece of persistent state
\* as it was, the running statistics of the normalisation layers included,
\* in training and in inference mode.
C8_Original ==
    Called => (out.after = out.before /\ tracked = out.after /\ weights = steps)

\* C8 as amended: a twin forward call never changes the weights; in
\* inference mode it changes no persistent state at all; in training mode
\* each of its four traversals updates the running statistics of every
\* normalisation layer it passes, so a call that returns has advanced each
\* layer's statistics four times.
C8_PersistentState ==
    Called =>
        /\ tracked = out.after
        /\ weights = steps
        /\ \A k \in 1..Len(out.runs) : out.runs[k].w = weights - (IF pc = "done" THEN 1 ELSE 0)
        /\ ~out.mode => out.after = out.before
        /\ (out.mode /\ out.ok) =>
              /\ Len(out.after) = Len(out.before)
              /\ \A i \in 1..Len(out.after) :
                    out.after[i] = out.before[i] + 4

C8_Witness ==
    Called /\ out.ok /\ ~out.mode /\ out.after = out.before /\ Len(out.after) > 0

\* C5 as stated: the contrastive loss computes one L2 distance per sample,
\* over the whole flattened feature map, and averages exactly batch-many
\* hinge terms.
C5_PerSample ==
    (pc \in {"backward", "step", "done"}) =>
        /\ losses.contr.n = losses.contr.f1.shape[1]
        /\ losses.contr.over = Prod(Tail(losses.contr.f1.shape))

\* C7: one run of the training cell performs zero_grad, forward, loss,
\* backward and optimizer step in this order, each once; the loss is the
\* unweighted sum of the contrastive loss of the two feature maps and the
\* MSE of reg0 against y1 and depends on neither reg1 nor y2; the weights
\* are written by the optimizer step only.
CellOrder == <<"zero_grad", "forward", "loss", "backward", "step">>

C7_TrainingStep ==
    /\ Len(events) <= Len(CellOrder) /\ events = SubSeq(CellOrder, 1, Len(events))
    /\ pc = "done" => events = CellOrder
    /\ weights = steps
    /\ (pc \in {"backward", "step", "done"}) =>
          /\ losses.total.terms = <<losses.contr, losses.mse>>
          /\ losses.total.deps = {"features_x1", "features_x2", "reg0", "y1"}
          /\ losses.contr.f1 = Named("features_x1", out.runs[3])
          /\ losses.contr.f2 = Named("features_x2", out.runs[4])
          /\ losses.mse.input = Named("reg0", out.runs[1])
          /\ losses.mse.target = data.y1
          /\ out.mode

C7_Witness ==
    pc = "done" /\ steps = 2 /\ weights = 2 /\ events = CellOrder

\* C10: in every stage only the first block can carry a projection, and it
\* does exactly when the stage stride is not 1 or the running input channel
\* count differs from planes * expansion; later blocks have stride 1, an
\* identity shortcut and take the previous block's output channels; the
\* shortcut of every block produces as many channels as its main path.
RunningIn(i) == IF i = 1 THEN 64 ELSE StagePlanes[i - 1] * Expansion(block)

C10_MakeLayer ==
    \A i \in 1..Len(stages) :
        /\ Len(stages[i]) = layers[i]
        /\ \A j \in 1..Len(stages[i]) :
              LET b == stages[i][j] IN
              /\ b.kind = block /\ b.planes = StagePlanes[i]
              /\ ShortcutOut(b) = MainOut(b)
              /\ j = 1 =>
                    /\ b.stride = StageStrides[i] /\ b.in_planes = RunningIn(i)
                    /\ (b.downsample # None) <=>
                          (StageStrides[i] # 1 \/ RunningIn(i) # StagePlanes[i] * Expansion(block))
                    /\ b.downsample # None =>
                          /\ b.downsample[1].stride = StageStrides[i]
                          /\ b.downsample[1].in_planes = RunningIn(i)
              /\ j > 1 =>
                    /\ b.stride = 1 /\ b.downsample = None
                    /\ b.in_planes = MainOut(stages[i][j - 1])
              /\ (b.downsample # None) <=>
                    (j = 1 /\ (block = "Bottleneck" \/ i > 1))

C10_Witness ==
    /\ built /\ Len(stages) = 4 /\ block = "BasicBlock"
    /\ Len(stages[1]) = 2 /\ stages[1][1].downsample = None
    /\ Len(stages[2]) = 2 /\ stages[2][1].downsample # None
    /\ stages[2][2].downsample = None

(* contrastive_loss on data *)
LossReturned == lossOut.pc = "returned"
Distances    == lossOut.ret.distances.data
Loss         == lossOut.ret.loss

\* Zero when every distance is at least the margin.
ZeroBeyondMargin ==
    (\A k \in 1..Len(Distances) : Distances[k] >= lossIn.margin) => Loss.num = 0

\* The mean lies in [0, margin].
InRange == Loss.num >= 0 /\ Loss.num <= lossIn.margin * Loss.den

\* Compared with the previous call on the same shapes and margin: no
\* distance smaller means no larger loss.
NonIncreasing ==
    \A p \in 1..Len(lossOut.prev) :
        (\A k \in 1..Len(Distances) : Distances[k] >= lossOut.prev[p].distances.data[k])
            => Loss.num <= lossOut.prev[p].loss.num

\* The distance the code computes for identical tensors: the norm of eps
\* over the innermost dimension.
IdenticalDistance == ISqrt(lossIn.f1.shape[5] * Square(Eps))

\* C6 as stated: for every margin > 0 the loss is zero when all distances
\* are at least the margin, strictly positive and at most the margin when
\* the two tensors are identical, and lies in [0, margin].
C6_Original ==
    LossReturned =>
        /\ ZeroBeyondMargin
        /\ InRange
        /\ lossIn.f1 = lossIn.f2 => (Loss.num > 0 /\ Loss.num <= lossIn.margin * Loss.den)

\* C6 as amended: for every margin > 0 the loss is zero when all distances
\* are at least the margin, lies in [0, margin] and does not increase when
\* no distance decreases; for identical tensors every distance is the norm
\* of eps over the innermost dimension, so the loss is strictly positive
\* (margin minus that distance) when the margin exceeds that distance and
\* exactly zero when it does not.
C6_Hinge ==
    LossReturned =>
        /\ ZeroBeyondMargin
        /\ InRange
        /\ NonIncreasing
        /\ lossIn.f1 = lossIn.f2 =>
              /\ \A k \in 1..Len(Distances) : Distances[k] = IdenticalDistance
              /\ lossIn.margin > IdenticalDistance =>
                    /\ Loss.num = (lossIn.margin - IdenticalDistance) * Loss.den
                    /\ Loss.num > 0 /\ Loss.num <= lossIn.margin * Loss.den
              /\ lossIn.margin <= IdenticalDistance => Loss.num = 0

C6_Witness ==
    /\ LossReturned /\ lossIn.f1 = lossIn.f2 /\ lossIn.margin = Margin
    /\ Loss.num > 0 /\ Loss.num <= lossIn.margin * Loss.den
    /\ Len(lossOut.prev) = 1 /\ lossOut.prev[1].loss.num < Loss.num

====
